---- MODULE Spec2Model ----
(***************************************************************************)
(* Model of neoliberal/fashbot: the usernote archiver                       *)
(* (src/usernote_archiver.py) and the bot (src/fashbot.py: get_usernotes    *)
(* under RenderSpec, the listen loop under ListenSpec).  One archive cycle loads the persisted       *)
(* archive, fetches and decodes the subreddit's usernotes wiki page, checks *)
(* the version, reconciles the two constants lists, reconciles the notes    *)
(* and writes the archive back.  The main loop runs a cycle, sleeps and     *)
(* repeats; it catches no exception.                                        *)
(***************************************************************************)
EXTENDS Integers, Sequences, FiniteSets, TLC

(***************************************************************************)
(* Bounds and input domains                                                 *)
(***************************************************************************)
\* most notes in the blob of a fetched wiki page
MaxNotes == 3
\* longest constants list ("users", "warnings") in a fetched wiki page
MaxConst == 2

Users == {"alice", "bob"}
ModNames == {"m1", "m2"}
WarnNames == {"spam", "troll"}
Times == {100, 200}
Versions == {6, 7}

SeqsUpTo(S, n) == UNION {[1..k -> S] : k \in 0..n}

\* a note as toolbox stores it: m, w index the constants lists, t is the
\* timestamp, n the text, l the link token
NotePool == [m : {0, 1}, t : Times, w : {0}, n : {"note"}, l : {"0"}]

\* a user's entry in a well-formed blob
UserNotes(ns) == [ns |-> ns]

Nil == [nil |-> TRUE]

\* a wiki page or an archive file, decoded
Doc(v, us, ws, b) ==
    [ver |-> v, constants |-> [users |-> us, warnings |-> ws], blob |-> b]

Note(m, t) == [m |-> m, t |-> t, w |-> 0, n |-> "note", l |-> "0"]

RECURSIVE Sum(_, _)
Sum(f, S) == IF S = {} THEN 0 ELSE LET x == CHOOSE y \in S : TRUE IN f[x] + Sum(f, S \ {x})

\* the number of notes in a well-formed blob
TotalNotes(b) == Sum([u \in DOMAIN b |-> Len(b[u].ns)], DOMAIN b)

\* every well-formed blob over the users that holds at most n notes
Blobs(n) ==
    {b \in UNION {[S -> {UserNotes(ns) : ns \in SeqsUpTo(NotePool, n)}] : S \in SUBSET Users} :
        TotalNotes(b) <= n}

EmptyBlob == [u \in {} |-> UserNotes(<<>>)]

\* the reference page: the constants and the blob the other pages vary
RefUsers == <<"m1", "m2">>
RefWarnings == <<"spam">>
RefBlob == [u \in Users |-> IF u = "alice" THEN UserNotes(<<Note(1, 200)>>)
                                           ELSE UserNotes(<<Note(0, 100)>>)]

\* pages that vary the version and the constants lists
ConstDocs ==
    {Doc(v, us, ws, RefBlob) : v \in Versions, us \in SeqsUpTo(ModNames, MaxConst),
                               ws \in SeqsUpTo(WarnNames, MaxConst)}

\* pages that vary the blob
NoteDocs == {Doc(6, RefUsers, RefWarnings, b) : b \in Blobs(MaxNotes)}

\* the orders in which the keys of a decoded blob may stand
KeyOrders(b) ==
    {o \in [1..Cardinality(DOMAIN b) -> DOMAIN b] :
        \A i, j \in DOMAIN o : i # j => o[i] # o[j]}

\* a decoded wiki page: the document and the order of the keys of its blob
Page(d, o) ==
    [ver |-> d.ver, constants |-> d.constants, blob |-> d.blob, order |-> o]

\* the pages the wiki may hold when it is fetched
RemoteDocs ==
    UNION {{Page(d, o) : o \in KeyOrders(d.blob)} : d \in ConstDocs \cup NoteDocs}

\* what a write that fails part-way leaves on disk: the file emptied by
\* open(..., "w"), or a proper prefix of the JSON text
TornFiles == {[torn |-> "empty"], [torn |-> "prefix"]}

\* the archive files the archiver may be started on
InitBlobs ==
    { EmptyBlob,
      [u \in {"alice"} |-> UserNotes(<<Note(0, 100)>>)],
      [u \in Users |-> IF u = "alice" THEN UserNotes(<<Note(0, 100)>>)
                                      ELSE UserNotes(<<Note(1, 200)>>)] }

InitArchives ==
    {Doc(6, <<"m1">>, <<>>, b) : b \in InitBlobs}
        \cup {Doc(6, <<"m1">>, <<"spam">>, [u \in {"alice"} |-> UserNotes(<<Note(0, 100)>>)])}

(***************************************************************************)
(* The merge, as archive_usernotes computes it                              *)
(***************************************************************************)
\* a bug: the version assertion is gone
VersionOk_Skipped(archive, remoteDoc) == TRUE

\* archived_usernotes["ver"] == subreddit_usernotes["ver"]
VersionOk(archive, remoteDoc) == archive.ver = remoteDoc.ver

\* a bug: the new entry is inserted at the head of the list
AppendConstant_Front(list, entry) == <<entry>> \o list

\* a bug: the new entry is logged but not appended
AppendConstant_Skip(list, entry) == list

\* list.append(entry) on a constants list
AppendConstant(list, entry) == Append(list, entry)

\* The loop over enumerate(remote list): position idx (1-based here) must
\* hold the same entry in the archive's list; an IndexError appends the
\* entry; an unequal entry is an AssertionError, which nothing catches.
RECURSIVE ReconcileFrom(_, _, _)
ReconcileFrom(remoteList, archList, idx) ==
    IF idx > Len(remoteList) THEN [err |-> "none", list |-> archList]
    ELSE IF idx <= Len(archList)
         THEN IF remoteList[idx] = archList[idx]
              THEN ReconcileFrom(remoteList, archList, idx + 1)
              ELSE [err |-> "ConstantsDrift", list |-> archList]
         ELSE ReconcileFrom(remoteList, AppendConstant(archList, remoteList[idx]), idx + 1)

\* a bug: the assertions are not evaluated, entries past the archive's
\* length are appended whatever the common indices hold
ReconcileConstants_NoAssert(remoteList, archList) ==
    [err |-> "none",
     list |-> IF Len(remoteList) > Len(archList)
              THEN archList \o SubSeq(remoteList, Len(archList) + 1, Len(remoteList))
              ELSE archList]

ReconcileConstants(remoteList, archList) == ReconcileFrom(remoteList, archList, 1)

\* a bug: notes are compared whole, not by timestamp
NoteExists_WholeNote(note, archNs) == \E i \in 1..Len(archNs) : note = archNs[i]

\* note_exists: some archived note of the user has the note's timestamp
NoteExists(note, archNs) == \E i \in 1..Len(archNs) : note.t = archNs[i].t

\* a bug: the new note is inserted at the head of the sequence
AppendNote_Front(archNs, note) == <<note>> \o archNs

\* archived_usernotes["blob"][user]["ns"].append(note)
AppendNote(archNs, note) == Append(archNs, note)

\* archived_usernotes["blob"][user] = user: the entry of a user new to the
\* archive is the user's name, a string, not the remote entry
NewUserEntry(user, remoteEntry) == [str |-> user]

\* The loop over the remote notes of a user the archive has.  Subscripting
\* the archived entry with "ns" raises TypeError when the entry is a string.
RECURSIVE MergeUserNotes(_, _, _)
MergeUserNotes(remoteNs, archEntry, i) ==
    IF i > Len(remoteNs) THEN [err |-> "none", entry |-> archEntry]
    ELSE IF "ns" \notin DOMAIN archEntry THEN [err |-> "TypeError", entry |-> archEntry]
    ELSE IF NoteExists(remoteNs[i], archEntry.ns)
         THEN MergeUserNotes(remoteNs, archEntry, i + 1)
         ELSE MergeUserNotes(remoteNs,
                  [archEntry EXCEPT !.ns = AppendNote(@, remoteNs[i])], i + 1)

\* The loop over the users of the remote blob, in the order of its keys,
\* from position k.
RECURSIVE MergeBlob(_, _, _)
MergeBlob(remoteDoc, archBlob, k) ==
    IF k > Len(remoteDoc.order) THEN [err |-> "none", blob |-> archBlob]
    ELSE LET user == remoteDoc.order[k] IN
         IF user \in DOMAIN archBlob
         THEN LET r == MergeUserNotes(remoteDoc.blob[user].ns, archBlob[user], 1)
                  b == [archBlob EXCEPT ![user] = r.entry]
              IN  IF r.err # "none" THEN [err |-> r.err, blob |-> b]
                  ELSE MergeBlob(remoteDoc, b, k + 1)
         ELSE MergeBlob(remoteDoc,
                  archBlob @@ (user :> NewUserEntry(user, remoteDoc.blob[user])), k + 1)

\* The whole merge of one cycle, from the version check to the last note:
\* the exception raised, if any, and the archive in memory at that point.
Merge(remoteDoc, archive) ==
    IF ~VersionOk(archive, remoteDoc) THEN [err |-> "VersionMismatch", doc |-> archive]
    ELSE LET us == ReconcileConstants(remoteDoc.constants.users, archive.constants.users)
             a1 == [archive EXCEPT !.constants.users = us.list]
         IN  IF us.err # "none" THEN [err |-> us.err, doc |-> a1]
             ELSE LET ws == ReconcileConstants(remoteDoc.constants.warnings,
                                               a1.constants.warnings)
                      a2 == [a1 EXCEPT !.constants.warnings = ws.list]
                  IN  IF ws.err # "none" THEN [err |-> ws.err, doc |-> a2]
                      ELSE LET bs == MergeBlob(remoteDoc, a2.blob, 1)
                           IN  [err |-> bs.err, doc |-> [a2 EXCEPT !.blob = bs.blob]]

(***************************************************************************)
(* The rendering, as FashBot.get_usernotes computes it                      *)
(* (src/fashbot.py).  A string is a TLA+ string; a link token is spelt as   *)
(* the sequence of its characters so that split(",") can be computed.       *)
(***************************************************************************)
\* self.subreddit.display_name
SubName == "neoliberal"

Digits == <<"0", "1", "2", "3", "4", "5", "6", "7", "8", "9">>
TwoDigits(k) == Digits[(k \div 10) + 1] \o Digits[(k % 10) + 1]

\* time.strftime("%Y-%m-%d %H:%M:%S", time.localtime(t)) for a timestamp of
\* the first day of the epoch, the process running in UTC
FormatTime(t) ==
    "1970-01-01 " \o TwoDigits(t \div 3600) \o ":" \o TwoDigits((t % 3600) \div 60)
                  \o ":" \o TwoDigits(t % 60)

\* a bug: a negative index is refused
PyIndex_NoWrap(list, i) ==
    IF 0 <= i /\ i < Len(list) THEN [err |-> "none", val |-> list[i + 1]]
    ELSE [err |-> "IndexError", val |-> ""]

\* list[i] in Python: a negative index counts from the end, an index outside
\* -len..len-1 raises IndexError
PyIndex(list, i) ==
    IF 0 <= i /\ i < Len(list) THEN [err |-> "none", val |-> list[i + 1]]
    ELSE IF -Len(list) <= i /\ i < 0 THEN [err |-> "none", val |-> list[Len(list) + i + 1]]
    ELSE [err |-> "IndexError", val |-> ""]

\* str.split(","): the fields of chars from position i on, cur being the
\* field read so far
RECURSIVE SplitFrom(_, _, _)
SplitFrom(chars, i, cur) ==
    IF i > Len(chars) THEN <<cur>>
    ELSE IF chars[i] = "," THEN <<cur>> \o SplitFrom(chars, i + 1, "")
    ELSE SplitFrom(chars, i + 1, cur \o chars[i])

Split(chars) == SplitFrom(chars, 1, "")

\* the name note_link before its first assignment
Unbound == [bound |-> FALSE]
Bound(s) == [bound |-> TRUE, v |-> s]

\* a bug: the field count is taken one too high
LinkAfter_OffByOne(fields, noteLink) ==
    IF Len(fields) = 2 THEN Bound("")
    ELSE IF Len(fields) = 3
         THEN Bound("https://reddit.com/r/" \o SubName \o "/comments/" \o fields[2])
    ELSE noteLink

\* The three ifs on len(note_link_split): the value of note_link after them,
\* noteLink being its value before (what the previous note left).
LinkAfter(fields, noteLink) ==
    IF Len(fields) = 1 THEN Bound("")
    ELSE IF Len(fields) = 2
         THEN Bound("https://reddit.com/r/" \o SubName \o "/comments/" \o fields[2])
    ELSE IF Len(fields) = 3
         THEN Bound("https://reddit.com/r/" \o SubName \o "/comments/" \o fields[2]
                       \o "/_/" \o fields[3])
    ELSE noteLink

\* the row appended to formatted_notes
Row(noteMod, noteTime, noteLink, noteReason, noteText) ==
    IF noteLink # ""
    THEN noteMod \o " | [" \o noteTime \o "](" \o noteLink \o ") | "
                 \o noteReason \o " | " \o noteText
    ELSE noteMod \o " | " \o noteTime \o " | " \o noteReason \o " | " \o noteText

\* The loop over notes[user]["ns"] from position i on: the exception raised,
\* if any, and formatted_notes.  noteLink is the loop-carried note_link.
RECURSIVE FormatNotes(_, _, _, _, _)
FormatNotes(ns, i, constants, noteLink, rows) ==
    IF i > Len(ns) THEN [err |-> "none", rows |-> rows]
    ELSE LET note == ns[i]
             noteMod == PyIndex(constants.users, note.m)
             noteReason == PyIndex(constants.warnings, note.w)
             link == LinkAfter(Split(note.l), noteLink)
         IN  IF noteMod.err # "none" THEN [err |-> noteMod.err, rows |-> rows]
             ELSE IF noteReason.err # "none" THEN [err |-> noteReason.err, rows |-> rows]
             ELSE IF ~link.bound THEN [err |-> "UnboundLocalError", rows |-> rows]
             ELSE FormatNotes(ns, i + 1, constants, link,
                      Append(rows, Row(noteMod.val, FormatTime(note.t), link.v,
                                       noteReason.val, note.n)))

\* "\n".join(lines)
RECURSIVE JoinLines(_)
JoinLines(lines) ==
    IF lines = <<>> THEN ""
    ELSE IF Len(lines) = 1 THEN lines[1]
    ELSE lines[1] \o "\n" \o JoinLines(Tail(lines))

Header == <<"Mod | Time | Reason | Note", "- | - | - | - | -">>

\* get_usernotes(user) on a fetched and decoded wiki page: the exception
\* raised, if any, and the string returned
GetUsernotes(user, page) ==
    LET r == IF user \in DOMAIN page.blob
             THEN FormatNotes(page.blob[user].ns, 1, page.constants, Unbound, <<>>)
             ELSE [err |-> "none", rows |-> <<>>]
    IN  IF r.err # "none" THEN [err |-> r.err, text |-> ""]
        ELSE [err |-> "none",
              text |-> JoinLines(IF r.rows # <<>> THEN Header \o r.rows ELSE r.rows)]

(***************************************************************************)
(* State                                                                    *)
(***************************************************************************)
VARIABLES
    pc,       \* where the process is: a step of the cycle, or "terminated"
    file,     \* archived_usernotes.json
    mem,      \* archived_usernotes, the loaded archive being updated
    remote,   \* subreddit_usernotes, the fetched and decoded wiki page
    err,      \* the exception that ended the process, "none" while it runs
    file0,    \* history: the file as it was when the current cycle began
    writes    \* history: writes to the file in the current cycle

\* the bot, src/fashbot.py: a call of get_usernotes by one of its callers
VARIABLES
    rpc,      \* where the call is: "idle", "call", "returned", "done"
    rq,       \* the call: the caller, the user asked for, the wiki page
    out,      \* what get_usernotes returned or raised
    sent      \* what the caller then did: the message sent or the exception

\* the bot, src/fashbot.py: the listen loop
VARIABLES
    lpc,      \* where the process is: "idle", "stream", "inbox", "terminated"
    mods,     \* mods, the moderators fetched when listen began
    parsed,   \* self.parsed, the deque of handled comment ids
    posted,   \* the number of comments posted to the subreddit so far
    redo,     \* history: handle_comment calls on comments the stream gave again
    completed,\* history: the ids for which handle_comment completed
    ev        \* history: the last call of a handler, and the item it was given

archVars == <<pc, file, mem, remote, err, file0, writes>>
renderVars == <<rpc, rq, out, sent>>
listenVars == <<lpc, mods, parsed, posted, redo, completed, ev>>
vars == <<archVars, renderVars, listenVars>>

\* the archiver is not running
ArchiverOff ==
    /\ pc = "off"
    /\ file = Nil
    /\ mem = Nil
    /\ remote = Nil
    /\ err = "none"
    /\ file0 = Nil
    /\ writes = 0

\* no call of get_usernotes is being looked at
RenderOff ==
    /\ rpc = "off"
    /\ rq = Nil
    /\ out = Nil
    /\ sent = Nil

\* the bot's listen loop is not running
ListenOff ==
    /\ lpc = "off"
    /\ mods = {}
    /\ parsed = <<>>
    /\ posted = 0
    /\ redo = 0
    /\ completed = {}
    /\ ev = Nil

Init ==
    /\ pc = "load"
    /\ file \in InitArchives
    /\ mem = Nil
    /\ remote = Nil
    /\ err = "none"
    /\ file0 = file
    /\ writes = 0
    /\ RenderOff
    /\ ListenOff

\* a bug: the archive in memory is written out when an exception passes
Raise_Saving(e) ==
    /\ pc' = "terminated"
    /\ err' = e
    /\ file' = IF mem = Nil THEN file ELSE mem

\* An exception leaves archive_usernotes and the while loop of __main__,
\* which has no handler: the process ends.
Raise(e) ==
    /\ pc' = "terminated"
    /\ err' = e
    /\ UNCHANGED file

\* with open("archived_usernotes.json") as f: json.load(f)
Load ==
    /\ pc = "load"
    /\ \/ /\ mem' = file
          /\ pc' = "fetch"
          /\ UNCHANGED <<file, err>>
       \/ /\ Raise("StorageUnavailable")
          /\ UNCHANGED mem
    /\ UNCHANGED <<remote, file0, writes>>
    /\ UNCHANGED <<renderVars, listenVars>>

\* json.loads(wiki page), then the blob is base64-decoded, inflated and
\* parsed; the fetch or any decoding step may raise
Fetch ==
    /\ pc = "fetch"
    /\ \/ \E d \in RemoteDocs :
             /\ remote' = d
             /\ pc' = "check"
             /\ UNCHANGED <<file, err>>
       \/ /\ Raise("SourceUnavailable")
          /\ UNCHANGED remote
       \/ /\ Raise("MalformedDocument")
          /\ UNCHANGED remote
    /\ UNCHANGED <<mem, file0, writes>>
    /\ UNCHANGED <<renderVars, listenVars>>

\* assert archived_usernotes["ver"] == subreddit_usernotes["ver"]
CheckVersion ==
    /\ pc = "check"
    /\ IF VersionOk(mem, remote)
       THEN pc' = "mods" /\ UNCHANGED <<file, err>>
       ELSE Raise("VersionMismatch")
    /\ UNCHANGED <<mem, remote, file0, writes>>
    /\ UNCHANGED <<renderVars, listenVars>>

UpdateMods ==
    /\ pc = "mods"
    /\ LET r == ReconcileConstants(remote.constants.users, mem.constants.users) IN
       /\ mem' = [mem EXCEPT !.constants.users = r.list]
       /\ IF r.err = "none"
          THEN pc' = "warnings" /\ UNCHANGED <<file, err>>
          ELSE Raise(r.err)
    /\ UNCHANGED <<remote, file0, writes>>
    /\ UNCHANGED <<renderVars, listenVars>>

UpdateWarnings ==
    /\ pc = "warnings"
    /\ LET r == ReconcileConstants(remote.constants.warnings, mem.constants.warnings) IN
       /\ mem' = [mem EXCEPT !.constants.warnings = r.list]
       /\ IF r.err = "none"
          THEN pc' = "notes" /\ UNCHANGED <<file, err>>
          ELSE Raise(r.err)
    /\ UNCHANGED <<remote, file0, writes>>
    /\ UNCHANGED <<renderVars, listenVars>>

UpdateNotes ==
    /\ pc = "notes"
    /\ LET r == MergeBlob(remote, mem.blob, 1) IN
       /\ mem' = [mem EXCEPT !.blob = r.blob]
       /\ IF r.err = "none"
          THEN pc' = "save" /\ UNCHANGED <<file, err>>
          ELSE Raise(r.err)
    /\ UNCHANGED <<remote, file0, writes>>
    /\ UNCHANGED <<renderVars, listenVars>>

\* with open("archived_usernotes.json", "w") as f: json.dump(...)
\* The open may fail and leave the file alone; once it has succeeded the
\* file is empty, and a write that fails before the text is complete leaves
\* it torn.
Save ==
    /\ pc = "save"
    /\ \/ /\ file' = mem
          /\ writes' = writes + 1
          /\ pc' = "sleep"
          /\ UNCHANGED err
       \/ /\ Raise("StorageUnavailable")
          /\ UNCHANGED writes
       \/ /\ \E t \in TornFiles : file' = t
          /\ writes' = writes + 1
          /\ pc' = "terminated"
          /\ err' = "StorageUnavailable"
    /\ UNCHANGED <<mem, remote, file0>>
    /\ UNCHANGED <<renderVars, listenVars>>

\* time.sleep(60 * 60 * 8), then the next turn of the while loop; the
\* locals of the finished call are gone
Sleep ==
    /\ pc = "sleep"
    /\ pc' = "load"
    /\ mem' = Nil
    /\ remote' = Nil
    /\ file0' = file
    /\ writes' = 0
    /\ UNCHANGED <<file, err>>
    /\ UNCHANGED <<renderVars, listenVars>>

Next ==
    \/ Load
    \/ Fetch
    \/ CheckVersion
    \/ UpdateMods
    \/ UpdateWarnings
    \/ UpdateNotes
    \/ Save
    \/ Sleep

Spec == Init /\ [][Next]_vars

FairSpec == Spec /\ WF_vars(Next)

(***************************************************************************)
(* Calls of get_usernotes: the wiki pages and users it is called on         *)
(***************************************************************************)
\* most comma-separated fields in a link token
MaxFields == 4
\* most notes of the user asked for
MaxRenderNotes == 2

\* the link tokens of k one-character fields, spelt with their commas
RECURSIVE TokensOf(_)
TokensOf(k) ==
    IF k = 1 THEN {<<c>> : c \in {"0", "a"}}
    ELSE {tok \o <<",", c>> : tok \in TokensOf(k - 1), c \in {"a", "b"}}

\* "" (one empty field) and "0," (an empty second field) besides
LinkTokens == UNION {TokensOf(k) : k \in 1..MaxFields} \cup {<<>>, <<"0", ",">>}

RNote(m, t, w, l) == [m |-> m, t |-> t, w |-> w, n |-> "note", l |-> l]

\* notes that vary the link token, the timestamp, or one of the two indices
Indices == {-3, -2, -1, 0, 1, 2}
RenderNotes ==
    {RNote(0, 100, 0, l) : l \in LinkTokens}
        \cup {RNote(0, 200, 0, <<"0">>)}
        \cup {RNote(m, 100, 0, <<"0">>) : m \in Indices}
        \cup {RNote(0, 100, w, <<"0">>) : w \in Indices}

RenderConstants == [users |-> <<"m1", "m2">>, warnings |-> <<"spam", "troll">>]

\* the decoded wiki pages: alice's notes vary, bob has no entry
RenderPages ==
    {[constants |-> RenderConstants, blob |-> [u \in {"alice"} |-> UserNotes(ns)]] :
        ns \in SeqsUpTo(RenderNotes, MaxRenderNotes)}

RenderInit ==
    /\ ArchiverOff
    /\ ListenOff
    /\ rpc = "idle"
    /\ rq = Nil
    /\ out = Nil
    /\ sent = Nil

\* handle_comment: usernotes = self.get_usernotes(comment.parent().author)
CallFromComment ==
    /\ rpc = "idle"
    /\ \E u \in Users, page \in RenderPages :
          rq' = [caller |-> "comment", user |-> u, page |-> page]
    /\ rpc' = "call"
    /\ UNCHANGED <<out, sent, archVars, listenVars>>

\* handle_message: body = self.get_usernotes(content.author)
CallFromMessage ==
    /\ rpc = "idle"
    /\ \E u \in Users, page \in RenderPages :
          rq' = [caller |-> "message", user |-> u, page |-> page]
    /\ rpc' = "call"
    /\ UNCHANGED <<out, sent, archVars, listenVars>>

RunGetUsernotes ==
    /\ rpc = "call"
    /\ out' = GetUsernotes(rq.user, rq.page)
    /\ rpc' = "returned"
    /\ UNCHANGED <<rq, sent, archVars, listenVars>>

\* handle_comment after the call: an empty result becomes "No usernotes",
\* and the result is sent to the comment's author
CommentReply ==
    /\ rpc = "returned"
    /\ rq.caller = "comment"
    /\ sent' = IF out.err # "none" THEN [err |-> out.err, text |-> ""]
               ELSE [err |-> "none",
                     text |-> IF out.text = "" THEN "No usernotes" ELSE out.text]
    /\ rpc' = "done"
    /\ UNCHANGED <<rq, out, archVars, listenVars>>

\* handle_message after the call: the result goes into body, then
\* dialogue/commands.txt is opened (FileNotFoundError where it is missing),
\* and the send names usernotes, which handle_message never binds
MessageReply ==
    /\ rpc = "returned"
    /\ rq.caller = "message"
    /\ \/ /\ out.err # "none"
          /\ sent' = [err |-> out.err, text |-> ""]
       \/ /\ out.err = "none"
          /\ \E e \in {"FileNotFoundError", "NameError"} :
                sent' = [err |-> e, text |-> ""]
    /\ rpc' = "done"
    /\ UNCHANGED <<rq, out, archVars, listenVars>>

RenderNext ==
    \/ CallFromComment
    \/ CallFromMessage
    \/ RunGetUsernotes
    \/ CommentReply
    \/ MessageReply

RenderSpec == RenderInit /\ [][RenderNext]_vars

(***************************************************************************)
(* The listen loop of the bot (src/fashbot.py, listen and __main__)         *)
(***************************************************************************)
\* Deque(maxlen=200)
ParsedMaxLen == 200
\* the comments the stream may give again are the first HeadLen ones
HeadLen == 6
\* the comments posted in a run: enough to push every one of the first
\* HeadLen out of the deque
NComments == HeadLen + ParsedMaxLen
\* handle_comment calls on comments given again
MaxRedo == 1
\* self.start_time
StartTime == 1000
\* the comments during whose handling a request to Reddit may fail
ApiFailsOn == {6}
\* what subreddit.moderator() may return
ModSets == {{"mod1", "mod2"}, {"mod1"}}

UpperCase == <<"A", "B", "C", "D", "E", "F", "G", "H", "I", "J", "K", "L", "M",
               "N", "O", "P", "Q", "R", "S", "T", "U", "V", "W", "X", "Y", "Z">>
LowerCase == <<"a", "b", "c", "d", "e", "f", "g", "h", "i", "j", "k", "l", "m",
               "n", "o", "p", "q", "r", "s", "t", "u", "v", "w", "x", "y", "z">>

\* str.lower, a character at a time
LowerChar(c) ==
    IF \E i \in 1..Len(UpperCase) : UpperCase[i] = c
    THEN LowerCase[CHOOSE i \in 1..Len(UpperCase) : UpperCase[i] = c]
    ELSE c

Lower(body) == [i \in 1..Len(body) |-> LowerChar(body[i])]

\* pat in body
Contains(body, pat) ==
    \E i \in 1..(Len(body) - Len(pat) + 1) : SubSeq(body, i, i + Len(pat) - 1) = pat

Trigger == <<"!", "f", "a", "s", "h", "b", "o", "t">>

\* the comments of the subreddit, by id in the order they are posted
CommentOf(id) ==
    CASE id = 1 -> [id |-> 1, created |-> StartTime - 1, author |-> "mod1",
                    body |-> Trigger]
      [] id = 2 -> [id |-> 2, created |-> StartTime, author |-> "mod1",
                    body |-> Trigger]
      [] id = 3 -> [id |-> 3, created |-> StartTime + 1, author |-> "pleb",
                    body |-> Trigger]
      [] id = 4 -> [id |-> 4, created |-> StartTime + 1, author |-> "mod1",
                    body |-> <<"f", "a", "s", "h", "b", "o", "t">>]
      [] id = 5 -> [id |-> 5, created |-> StartTime + 1, author |-> "mod2",
                    body |-> <<"!", "F", "a", "s", "h", "B", "o", "t">>]
      [] id = 6 -> [id |-> 6, created |-> StartTime + 1, author |-> "mod1",
                    body |-> <<"h", "i", " ">> \o Trigger]
      [] OTHER  -> [id |-> id, created |-> StartTime + 2, author |-> "mod1",
                    body |-> Trigger]

\* the newest unread item of the inbox
InboxItems ==
    [what : {"message", "reply"},
     created : {StartTime - 1, StartTime, StartTime + 1},
     author : {"mod1", "pleb"}]

NoEvent == [kind |-> "none"]

\* the call of a handler on an item
Event(kind, item, again) ==
    [kind |-> kind, item |-> item, mods |-> mods, again |-> again]

CreatedBeforeStart(comment) == comment.created < StartTime

InParsed(id, deque) == \E i \in 1..Len(deque) : deque[i] = id

\* a bug: no author is turned away
IsModerator_Anyone(author, modlist) == TRUE

IsModerator(author, modlist) == author \in modlist

Summons(body) == Contains(Lower(body), Trigger)

\* deque.append with maxlen: the oldest id is dropped when the deque is full
ParsedAppend(deque, id) ==
    IF Len(deque) >= ParsedMaxLen
    THEN Append(SubSeq(deque, 2, Len(deque)), id)
    ELSE Append(deque, id)

\* the four tests of the comment loop all let the comment through
Passes(id) ==
    /\ ~CreatedBeforeStart(CommentOf(id))
    /\ ~InParsed(id, parsed)
    /\ IsModerator(CommentOf(id).author, mods)
    /\ Summons(CommentOf(id).body)

\* the stream gives comments again soon after they were posted, or once
\* ParsedMaxLen comments were posted
MayRedeliver == posted <= HeadLen + 1 \/ posted >= ParsedMaxLen

\* the stream gives the next new comment, or gives one of the first again
Delivered(id) ==
    /\ lpc = "stream"
    /\ \/ id = posted + 1 /\ id <= NComments
       \/ /\ id <= posted
          /\ id <= HeadLen
          /\ MayRedeliver
          /\ Passes(id) => redo < MaxRedo

\* the ids the stream can give in the current state
Deliverable == (1..HeadLen) \cup {posted + 1}

Advance(id) ==
    /\ posted' = IF id = posted + 1 THEN id ELSE posted
    /\ redo' = IF id <= posted /\ Passes(id) THEN redo + 1 ELSE redo

ListenInit ==
    /\ ArchiverOff
    /\ RenderOff
    /\ lpc = "idle"
    /\ mods = {}
    /\ parsed = <<>>
    /\ posted = 0
    /\ redo = 0
    /\ completed = {}
    /\ ev = NoEvent

\* __main__ calls listen; listen fetches the moderators and opens the stream
ListenBegin ==
    /\ lpc = "idle"
    /\ \E m \in ModSets : mods' = m
    /\ lpc' = "stream"
    /\ UNCHANGED <<parsed, posted, redo, completed, ev, archVars, renderVars>>

\* the fetch of the moderators is outside the try: its exception ends the process
FetchModsFails ==
    /\ lpc = "idle"
    /\ lpc' = "terminated"
    /\ UNCHANGED <<mods, parsed, posted, redo, completed, ev, archVars, renderVars>>

SkipOld ==
    \E id \in Deliverable :
          /\ Delivered(id)
          /\ CreatedBeforeStart(CommentOf(id))
          /\ Advance(id)
          /\ UNCHANGED <<lpc, mods, parsed, completed, ev, archVars, renderVars>>

SkipParsed ==
    \E id \in Deliverable :
          /\ Delivered(id)
          /\ ~CreatedBeforeStart(CommentOf(id))
          /\ InParsed(id, parsed)
          /\ Advance(id)
          /\ UNCHANGED <<lpc, mods, parsed, completed, ev, archVars, renderVars>>

SkipNotModerator ==
    \E id \in Deliverable :
          /\ Delivered(id)
          /\ ~CreatedBeforeStart(CommentOf(id))
          /\ ~InParsed(id, parsed)
          /\ ~IsModerator(CommentOf(id).author, mods)
          /\ Advance(id)
          /\ UNCHANGED <<lpc, mods, parsed, completed, ev, archVars, renderVars>>

SkipNoSummons ==
    \E id \in Deliverable :
          /\ Delivered(id)
          /\ ~CreatedBeforeStart(CommentOf(id))
          /\ ~InParsed(id, parsed)
          /\ IsModerator(CommentOf(id).author, mods)
          /\ ~Summons(CommentOf(id).body)
          /\ Advance(id)
          /\ UNCHANGED <<lpc, mods, parsed, completed, ev, archVars, renderVars>>

\* handle_comment returns and the id is appended to the deque
HandleComment ==
    \E id \in Deliverable :
          /\ Delivered(id)
          /\ Passes(id)
          /\ Advance(id)
          /\ ev' = Event("comment", CommentOf(id), id \in completed)
          /\ parsed' = ParsedAppend(parsed, id)
          /\ completed' = completed \cup {id}
          /\ UNCHANGED <<lpc, mods, archVars, renderVars>>

\* a request inside handle_comment fails: listen catches the error, sleeps a
\* minute and returns; the id is not appended
HandleCommentApiError ==
    \E id \in Deliverable :
          /\ Delivered(id)
          /\ Passes(id)
          /\ id \in ApiFailsOn
          /\ Advance(id)
          /\ ev' = Event("comment", CommentOf(id), id \in completed)
          /\ lpc' = "idle"
          /\ UNCHANGED <<mods, parsed, completed, archVars, renderVars>>

\* handle_comment raises another exception (get_usernotes: IndexError,
\* UnboundLocalError): nothing catches it
HandleCommentCrash ==
    \E id \in Deliverable :
          /\ Delivered(id)
          /\ Passes(id)
          /\ Advance(id)
          /\ ev' = Event("comment", CommentOf(id), id \in completed)
          /\ lpc' = "terminated"
          /\ UNCHANGED <<mods, parsed, completed, archVars, renderVars>>

\* the stream fails: listen catches the error, sleeps a minute and returns
StreamApiError ==
    /\ lpc = "stream"
    /\ lpc' = "idle"
    /\ UNCHANGED <<mods, parsed, posted, redo, completed, ev, archVars, renderVars>>

\* the stream gives None: break
StreamPause ==
    /\ lpc = "stream"
    /\ lpc' = "inbox"
    /\ UNCHANGED <<mods, parsed, posted, redo, completed, ev, archVars, renderVars>>

\* unread(limit=1) gives nothing, or fails: listen returns
InboxEmpty ==
    /\ lpc = "inbox"
    /\ lpc' = "idle"
    /\ UNCHANGED <<mods, parsed, posted, redo, completed, ev, archVars, renderVars>>

MessageAfterStart(item) == item.what = "message" /\ item.created > StartTime

\* not a Message, or not created after the start: the item is marked read.
\* The mark is the inbox's state at Reddit; the newest unread item is drawn
\* anew at each listen.
InboxSkip(item) ==
    /\ lpc = "inbox"
    /\ ~MessageAfterStart(item)
    /\ lpc' = "idle"
    /\ UNCHANGED <<mods, parsed, posted, redo, completed, ev, archVars, renderVars>>

\* mods(): mods is what subreddit.moderator() returned, and a list is not
\* callable; the TypeError is not caught
ModsCallFails(item) ==
    /\ lpc = "inbox"
    /\ MessageAfterStart(item)
    /\ lpc' = "terminated"
    /\ UNCHANGED <<mods, parsed, posted, redo, completed, ev, archVars, renderVars>>

\* where the object is callable and gives the moderators: the author is not
\* one of them, the item is marked read
InboxSkipNotModerator(item) ==
    /\ lpc = "inbox"
    /\ MessageAfterStart(item)
    /\ ~IsModerator(item.author, mods)
    /\ lpc' = "idle"
    /\ UNCHANGED <<mods, parsed, posted, redo, completed, ev, archVars, renderVars>>

\* handle_message is called; it ends at the latest at its last line, which
\* names usernotes, never bound (NameError), or before it (ValueError on
\* the subject, FileNotFoundError on dialogue/commands.txt): nothing catches it
HandleMessageCrash(item) ==
    /\ lpc = "inbox"
    /\ MessageAfterStart(item)
    /\ IsModerator(item.author, mods)
    /\ ev' = Event("message", item, FALSE)
    /\ lpc' = "terminated"
    /\ UNCHANGED <<mods, parsed, posted, redo, completed, archVars, renderVars>>

\* a request inside handle_message fails: listen catches the error; the item
\* is not marked read
HandleMessageApiError(item) ==
    /\ lpc = "inbox"
    /\ MessageAfterStart(item)
    /\ IsModerator(item.author, mods)
    /\ ev' = Event("message", item, FALSE)
    /\ lpc' = "idle"
    /\ UNCHANGED <<mods, parsed, posted, redo, completed, archVars, renderVars>>

ListenNext ==
    \/ ListenBegin
    \/ FetchModsFails
    \/ SkipOld
    \/ SkipParsed
    \/ SkipNotModerator
    \/ SkipNoSummons
    \/ HandleComment
    \/ HandleCommentApiError
    \/ HandleCommentCrash
    \/ StreamApiError
    \/ StreamPause
    \/ InboxEmpty
    \/ \E item \in InboxItems :
          \/ InboxSkip(item)
          \/ ModsCallFails(item)
          \/ InboxSkipNotModerator(item)
          \/ HandleMessageCrash(item)
          \/ HandleMessageApiError(item)

ListenSpec == ListenInit /\ [][ListenNext]_vars

(***************************************************************************)
(* Properties                                                               *)
(***************************************************************************)
IsPrefix(s, t) == Len(s) <= Len(t) /\ \A i \in 1..Len(s) : s[i] = t[i]

\* the entry is a dict with a note sequence, not a string
HasNotes(entry) == "ns" \in DOMAIN entry

\* the merge of the current cycle has run to its end without an exception
MergeDone == pc \in {"save", "sleep"}

\* The stepwise actions and Merge compute the same archive.
StepsAgreeWithMerge ==
    /\ MergeDone => Merge(remote, file0) = [err |-> "none", doc |-> mem]
    /\ (pc = "terminated" /\ remote # Nil /\ writes = 0 /\ mem # Nil /\ file = file0
          /\ err \in {"VersionMismatch", "ConstantsDrift", "TypeError"})
         => Merge(remote, file0) = [err |-> err, doc |-> mem]

\* C1: after a merge, every user of the remote blob that the archive did not
\* have is in the archive with the user's full remote entry (the remote note
\* sequence, verbatim and in order).
C1_NewUserInserted ==
    MergeDone =>
        \A u \in DOMAIN remote.blob \ DOMAIN file0.blob :
            u \in DOMAIN mem.blob /\ mem.blob[u] = remote.blob[u]

\* C2: once a merge has succeeded and been saved, merging the same remote
\* page into the saved archive succeeds and changes nothing.
C2_MergeIdempotent ==
    pc = "sleep" =>
        Merge(remote, file) = [err |-> "none", doc |-> file]

\* one blob extends another: every user stays, a note sequence only grows
\* at its tail, any other entry is unchanged
BlobExtends(old, new) ==
    \A u \in DOMAIN old :
        /\ u \in DOMAIN new
        /\ IF HasNotes(old[u])
           THEN HasNotes(new[u]) /\ IsPrefix(old[u].ns, new[u].ns)
           ELSE new[u] = old[u]

\* the file holds an archive: no write was cut short
Readable == file \notin TornFiles

\* C3: what a cycle leaves in the file extends what the file held when the
\* cycle began: every user is still there and each user's earlier notes are,
\* unchanged and in order, a prefix of the user's notes.  (A cycle whose
\* write is cut short is not a successful one; see C9.)
C3_Monotonic ==
    /\ Readable => BlobExtends(file0.blob, file.blob)
    /\ mem # Nil => BlobExtends(file0.blob, mem.blob)

C3_Witness ==
    /\ pc = "sleep"
    /\ \E u \in DOMAIN file0.blob :
          /\ HasNotes(file0.blob[u])
          /\ Len(file0.blob[u].ns) >= 1
          /\ Len(file.blob[u].ns) > Len(file0.blob[u].ns)
    /\ \E u \in DOMAIN file0.blob : u \notin DOMAIN remote.blob

\* the timestamps of a note sequence
Stamps(ns) == {ns[i].t : i \in 1..Len(ns)}

\* the notes of remoteNs from position i on that the claim says are appended:
\* those whose timestamp is neither in the archived sequence nor carried by
\* an earlier remote note
RECURSIVE NewNotes(_, _, _)
NewNotes(archNs, remoteNs, i) ==
    IF i > Len(remoteNs) THEN <<>>
    ELSE IF remoteNs[i].t \in Stamps(archNs) \cup Stamps(SubSeq(remoteNs, 1, i - 1))
         THEN NewNotes(archNs, remoteNs, i + 1)
         ELSE <<remoteNs[i]>> \o NewNotes(archNs, remoteNs, i + 1)

\* C4: after a merge, the note sequence of a user of both the remote and the
\* archive is the archived sequence followed, in remote order, by the remote
\* notes whose timestamp was not yet in the sequence when they were
\* considered; an entry without a note sequence is left as it is.
C4_DedupByTimestamp ==
    MergeDone =>
        \A u \in DOMAIN remote.blob \cap DOMAIN file0.blob :
            IF HasNotes(file0.blob[u])
            THEN /\ HasNotes(mem.blob[u])
                 /\ mem.blob[u].ns =
                        file0.blob[u].ns \o NewNotes(file0.blob[u].ns, remote.blob[u].ns, 1)
            ELSE mem.blob[u] = file0.blob[u] /\ remote.blob[u].ns = <<>>

\* a remote note with an archived timestamp is dropped, and of two remote
\* notes with one new timestamp the second is dropped
C4_Witness ==
    /\ pc = "sleep"
    /\ \E u \in DOMAIN remote.blob \cap DOMAIN file0.blob :
          /\ HasNotes(file0.blob[u])
          /\ \E i, j \in 1..Len(remote.blob[u].ns) :
                /\ i < j
                /\ remote.blob[u].ns[i] # remote.blob[u].ns[j]
                /\ remote.blob[u].ns[i].t = remote.blob[u].ns[j].t
                /\ remote.blob[u].ns[i].t \notin Stamps(file0.blob[u].ns)
          /\ Len(file.blob[u].ns) = Len(file0.blob[u].ns) + 1
          /\ \E i \in 1..Len(remote.blob[u].ns) :
                /\ remote.blob[u].ns[i].t \in Stamps(file0.blob[u].ns)
                /\ remote.blob[u].ns[i] \notin {file0.blob[u].ns[j] : j \in 1..Len(file0.blob[u].ns)}

\* C5: the constants lists only grow at the tail: every entry the file held
\* when the cycle began is at the same index, unchanged, in the archive in
\* memory and in the file.
C5_AppendOnlyConstants ==
    /\ Readable =>
          /\ IsPrefix(file0.constants.users, file.constants.users)
          /\ IsPrefix(file0.constants.warnings, file.constants.warnings)
    /\ mem # Nil =>
          /\ IsPrefix(file0.constants.users, mem.constants.users)
          /\ IsPrefix(file0.constants.warnings, mem.constants.warnings)

C5_Witness ==
    /\ pc = "sleep"
    /\ Len(file0.constants.users) >= 1
    /\ Len(file.constants.users) > Len(file0.constants.users)
    /\ Len(file0.constants.warnings) >= 1
    /\ Len(file.constants.warnings) > Len(file0.constants.warnings)

\* what a successful reconciliation makes of the archive's list: the remote
\* list when that is the longer one
Extended(archList, remoteList) ==
    IF Len(remoteList) > Len(archList) THEN remoteList ELSE archList

\* C6: after a successful merge each remote constants list is a positional
\* prefix of the archive's list, and the archive's list is its old self with
\* the remote's further entries behind it.
C6_ConstantsExtended ==
    MergeDone =>
        /\ IsPrefix(remote.constants.users, mem.constants.users)
        /\ IsPrefix(remote.constants.warnings, mem.constants.warnings)
        /\ mem.constants.users = Extended(file0.constants.users, remote.constants.users)
        /\ mem.constants.warnings =
               Extended(file0.constants.warnings, remote.constants.warnings)
        /\ pc = "sleep" => file.constants = mem.constants

\* two entries are appended to one list in one cycle
C6_Witness ==
    /\ pc = "sleep"
    /\ Len(remote.constants.warnings) >= Len(file0.constants.warnings) + 2
    /\ remote.constants.warnings[Len(remote.constants.warnings)]
         # remote.constants.warnings[Len(remote.constants.warnings) - 1]
    /\ Len(remote.constants.users) = Len(file0.constants.users) + 1

\* C7: a cycle gets past the reconciliation of a constants list only if the
\* archive's list is a positional prefix of the remote's list.
C7_DriftDetected ==
    /\ pc \in {"warnings", "notes", "save", "sleep"} =>
          IsPrefix(file0.constants.users, remote.constants.users)
    /\ pc \in {"notes", "save", "sleep"} =>
          IsPrefix(file0.constants.warnings, remote.constants.warnings)

\* C8: a cycle gets past the version check only with equal versions, and a
\* cycle that fails it has changed neither the archive in memory nor the file.
C8_VersionMismatch ==
    /\ pc \in {"mods", "warnings", "notes", "save", "sleep"} => remote.ver = file0.ver
    /\ (pc = "terminated" /\ remote # Nil /\ remote.ver # file0.ver) =>
          err = "VersionMismatch"
    /\ err = "VersionMismatch" =>
          /\ pc = "terminated"
          /\ remote.ver # file0.ver
          /\ mem = file0
          /\ file = file0
          /\ writes = 0

\* the failed page would have changed the constants and the notes
C8_Witness ==
    /\ err = "VersionMismatch"
    /\ Merge([remote EXCEPT !.ver = file0.ver], file0).err = "none"
    /\ Merge([remote EXCEPT !.ver = file0.ver], file0).doc.constants # file0.constants
    /\ Merge([remote EXCEPT !.ver = file0.ver], file0).doc.blob # file0.blob

\* C9: a cycle writes the file at most once, and what it writes is the
\* result of the whole merge having succeeded; until then, and for good when
\* the cycle fails, the file is what it was when the cycle began.
C9_NoPartialWrites ==
    /\ writes <= 1
    /\ writes = 1 =>
          /\ pc = "sleep"
          /\ Merge(remote, file0) = [err |-> "none", doc |-> file]
    /\ writes = 0 => file = file0
    /\ pc = "terminated" => file = file0

\* a drift found in the warnings after a moderator was appended in memory
C9_Witness ==
    /\ pc = "terminated"
    /\ err = "ConstantsDrift"
    /\ mem.constants.users # file0.constants.users
    /\ file = file0

TransientErrors == {"MalformedDocument", "StorageUnavailable", "SourceUnavailable"}

\* C10: a cycle that aborts with a transient or decode failure is followed
\* by a further cycle.
C10_RetryOnSchedule ==
    [](err \in TransientErrors => <>(pc = "load"))

(***************************************************************************)
(* Properties of get_usernotes                                              *)
(***************************************************************************)
\* get_usernotes has returned or raised
Rendered == rpc \in {"returned", "done"}

\* the notes of the user asked for, none when the blob has no such user
AskedNotes ==
    IF rq.user \in DOMAIN rq.page.blob THEN rq.page.blob[rq.user].ns ELSE <<>>

\* C11: get_usernotes returns "No usernotes" when the user asked for has no
\* entry in the blob or has no notes, whoever the caller is.
C11_EmptyNotes ==
    (Rendered /\ AskedNotes = <<>>) => out = [err |-> "none", text |-> "No usernotes"]

\* the positions of the commas of a link token, its number of fields, and
\* its j-th field
Commas(chars) == {i \in 1..Len(chars) : chars[i] = ","}
FieldCount(chars) == Cardinality(Commas(chars)) + 1
CommaNo(chars, j) ==
    IF j = 0 THEN 0
    ELSE IF j > Cardinality(Commas(chars)) THEN Len(chars) + 1
    ELSE CHOOSE i \in Commas(chars) : Cardinality({c \in Commas(chars) : c <= i}) = j
RECURSIVE Concat(_)
Concat(chars) == IF chars = <<>> THEN "" ELSE chars[1] \o Concat(Tail(chars))
FieldAt(chars, j) ==
    Concat(SubSeq(chars, CommaNo(chars, j - 1) + 1, CommaNo(chars, j) - 1))

InRange(i, list) == 0 <= i /\ i < Len(list)

\* the row the link rule gives a note of one, two or three fields
LinkRuleRow(note, constants) ==
    LET who == constants.users[note.m + 1]
        why == constants.warnings[note.w + 1]
        k == FieldCount(note.l)
        url == "https://reddit.com/r/" \o SubName \o "/comments/" \o FieldAt(note.l, 2)
    IN  IF k = 1
        THEN who \o " | " \o FormatTime(note.t) \o " | " \o why \o " | " \o note.n
        ELSE IF k = 2
        THEN who \o " | [" \o FormatTime(note.t) \o "](" \o url \o ") | "
                 \o why \o " | " \o note.n
        ELSE who \o " | [" \o FormatTime(note.t) \o "](" \o url \o "/_/"
                 \o FieldAt(note.l, 3) \o ") | " \o why \o " | " \o note.n

\* every note asked for has indices in range and at most three fields
LinkRuleApplies ==
    \A i \in 1..Len(AskedNotes) :
        /\ InRange(AskedNotes[i].m, rq.page.constants.users)
        /\ InRange(AskedNotes[i].w, rq.page.constants.warnings)
        /\ FieldCount(AskedNotes[i].l) <= 3

\* C12: a note of one field is rendered with its bare timestamp, a note of
\* two fields with a link to comments/{field 2}, a note of three fields with
\* a link to comments/{field 2}/_/{field 3}; the first field plays no part.
C12_LinkDerivation ==
    (Rendered /\ AskedNotes # <<>> /\ LinkRuleApplies) =>
        out = [err |-> "none",
               text |-> JoinLines(Header \o [i \in 1..Len(AskedNotes) |->
                                    LinkRuleRow(AskedNotes[i], rq.page.constants)])]

C12_Witness ==
    /\ Rendered
    /\ LinkRuleApplies
    /\ \E i, j \in 1..Len(AskedNotes) :
          /\ FieldCount(AskedNotes[i].l) = 2
          /\ FieldCount(AskedNotes[j].l) = 3
          /\ AskedNotes[i].l[1] # AskedNotes[j].l[1]

\* C13: a note whose moderator or warning index is outside 0..len-1 makes
\* get_usernotes fail.
C13_ReferenceOutOfRange ==
    (Rendered /\ \E i \in 1..Len(AskedNotes) :
                    \/ ~InRange(AskedNotes[i].m, rq.page.constants.users)
                    \/ ~InRange(AskedNotes[i].w, rq.page.constants.warnings))
        => out.err # "none"

\* the link a note's own token gives: none unless it has two or three fields
OwnLink(note) == LinkAfter(Split(note.l), Bound("")).v

\* C15: the link in a note's row is that of the note's own token, whatever
\* the notes before it.
C15_LinkIsolation ==
    (Rendered /\ AskedNotes # <<>> /\ out.err = "none") =>
        out.text = JoinLines(Header \o [i \in 1..Len(AskedNotes) |->
                       Row(PyIndex(rq.page.constants.users, AskedNotes[i].m).val,
                           FormatTime(AskedNotes[i].t),
                           OwnLink(AskedNotes[i]),
                           PyIndex(rq.page.constants.warnings, AskedNotes[i].w).val,
                           AskedNotes[i].n)])

(***************************************************************************)
(* Referential integrity of the archive                                     *)
(***************************************************************************)
\* every note of the document indexes its own constants lists in range
WellFormed(doc) ==
    \A u \in DOMAIN doc.blob :
        HasNotes(doc.blob[u]) =>
            \A i \in 1..Len(doc.blob[u].ns) :
                /\ InRange(doc.blob[u].ns[i].m, doc.constants.users)
                /\ InRange(doc.blob[u].ns[i].w, doc.constants.warnings)

\* the notes the merge appended to the user's sequence
AppendedNotes(u) ==
    IF HasNotes(mem.blob[u])
    THEN SubSeq(mem.blob[u].ns,
                (IF u \in DOMAIN file0.blob THEN Len(file0.blob[u].ns) ELSE 0) + 1,
                Len(mem.blob[u].ns))
    ELSE <<>>

\* C14: when the archive at the start of the cycle and the fetched page are
\* well-formed, the merged archive is well-formed, it is what gets saved, and
\* each note appended from the page resolves in the archive to the moderator
\* and the warning it resolves to in the page.
C14_ReferentialIntegrity ==
    (MergeDone /\ WellFormed(file0) /\ WellFormed(remote)) =>
        /\ WellFormed(mem)
        /\ pc = "sleep" => file = mem
        /\ \A u \in DOMAIN mem.blob :
              \A i \in 1..Len(AppendedNotes(u)) :
                 LET note == AppendedNotes(u)[i] IN
                 /\ u \in DOMAIN remote.blob
                 /\ \E j \in 1..Len(remote.blob[u].ns) : remote.blob[u].ns[j] = note
                 /\ mem.constants.users[note.m + 1] = remote.constants.users[note.m + 1]
                 /\ mem.constants.warnings[note.w + 1] = remote.constants.warnings[note.w + 1]

\* a note is appended that names a moderator appended in the same cycle
C14_Witness ==
    /\ pc = "sleep"
    /\ WellFormed(file0)
    /\ WellFormed(remote)
    /\ \E u \in DOMAIN file.blob :
          \E i \in 1..Len(AppendedNotes(u)) :
              AppendedNotes(u)[i].m >= Len(file0.constants.users)

(***************************************************************************)
(* Properties of listen                                                     *)
(***************************************************************************)
\* C16: at-most-once handling: handle_comment is never called on a comment id
\* for which a call of handle_comment has completed, however many other
\* comments were handled in between.
C16_AtMostOnce == ev.kind = "comment" => ~ev.again

\* C17: handle_comment is called only on comments created at or after
\* start_time, written by one of the moderators fetched for this listen, and
\* holding "!fashbot" in any case; handle_message only on private messages
\* created after start_time and written by a moderator; nothing else is
\* handed to a handler.
C17_HandlerGuard ==
    /\ ev.kind \in {"none", "comment", "message"}
    /\ ev.kind = "comment" =>
          /\ \E id \in 1..posted : ev.item = CommentOf(id)
          /\ ev.item.created >= StartTime
          /\ ev.item.author \in ev.mods
          /\ \E i \in 1..Len(ev.item.body) :
                Lower(SubSeq(ev.item.body, i, i + 7)) = Trigger
    /\ ev.kind = "message" =>
          /\ ev.item \in InboxItems
          /\ ev.item.what = "message"
          /\ ev.item.created > StartTime
          /\ ev.item.author \in ev.mods

\* the mixed-case summons of the second moderator was handled, and later a
\* message of a moderator reached handle_message
C17_Witness ==
    /\ ev.kind = "message"
    /\ 5 \in completed

====
